---- MODULE Spec2Model ----
(***************************************************************************)
(* A model of the two notebooks of the BEE-102 programming assignment:     *)
(*   04_Writing_Viterbi_Algorithm_for_the_Primer.ipynb                     *)
(*       calc_path_probability (the path scorer) and find_best_path (the   *)
(*       Viterbi decoder) over the hard-coded three-state HMM;             *)
(*   03_Multi_line_sequence_fasta_to_single_line_fasta.ipynb               *)
(*       the FASTA reformatter cell.                                       *)
(*                                                                         *)
(* Numbers.  The decoder multiplies Python floats, and a float that gets   *)
(* too small becomes 0.0: FMul is IEEE-754 binary64 multiplication with    *)
(* round-to-nearest-even, gradual underflow included.  The scorer adds     *)
(* logarithms; a logarithm of a product of the model's probabilities is    *)
(* kept exactly, as its coordinates over ln 2, ln 3, ln 5 and ln 19 (the   *)
(* primes of the probabilities), or as negative infinity.  The rounding    *)
(* of math.log and of the float additions of the scorer is not modelled.   *)
(* The probabilities of the tables are written in thousandths, as the      *)
(* decimal literals of the source read.                                    *)
(***************************************************************************)
EXTENDS Integers, Sequences, FiniteSets, TLC

(***************************************************************************)
(* Natural numbers of any size: little-endian sequences of limbs in base   *)
(* 2^14 without leading zero limbs; <<>> is zero.  TLC's integers have 32  *)
(* bits; every intermediate value below stays under 2^31.                  *)
(***************************************************************************)
RECURSIVE IntBitLen(_)
IntBitLen(n) == IF n = 0 THEN 0 ELSE 1 + IntBitLen(n \div 2)

Base == 2^14
LimbBits == IntBitLen(Base) - 1

Max2(a, b) == IF a >= b THEN a ELSE b
Min2(a, b) == IF a <= b THEN a ELSE b

MaxOf(S) == CHOOSE x \in S : \A y \in S : y <= x

\* b without its leading zero limbs
Trim(b) ==
    LET nz == {i \in 1..Len(b) : b[i] # 0}
    IN  IF nz = {} THEN <<>> ELSE SubSeq(b, 1, MaxOf(nz))

\* n < Base^2 as a number of any size
Big(n) == IF n = 0 THEN <<>> ELSE IF n < Base THEN <<n>> ELSE <<n % Base, n \div Base>>

Limb(b, i) == IF 1 <= i /\ i <= Len(b) THEN b[i] ELSE 0

\* The limbs are worked through by halves, the carry of the lower half going
\* into the upper one: limbs is the limbs lo..hi of the result, over the
\* carry out of them.
RECURSIVE MulSmallC(_, _, _, _, _)
MulSmallC(b, k, lo, hi, c) ==
    IF lo = hi
      THEN LET t == b[lo] * k + c
           IN  [limbs |-> <<t % Base>>, over |-> t \div Base]
      ELSE LET mid == (lo + hi) \div 2
               low == MulSmallC(b, k, lo, mid, c)
               high == MulSmallC(b, k, mid + 1, hi, low.over)
           IN  [limbs |-> low.limbs \o high.limbs, over |-> high.over]

\* b * k for 0 <= k < Base
MulSmall(b, k) ==
    IF k = 0 \/ b = <<>> THEN <<>>
    ELSE LET r == MulSmallC(b, k, 1, Len(b), 0) IN r.limbs \o Big(r.over)

RECURSIVE AddC(_, _, _, _, _)
AddC(a, b, lo, hi, c) ==
    IF lo = hi
      THEN LET t == Limb(a, lo) + Limb(b, lo) + c
           IN  [limbs |-> <<t % Base>>, over |-> t \div Base]
      ELSE LET mid == (lo + hi) \div 2
               low == AddC(a, b, lo, mid, c)
               high == AddC(a, b, mid + 1, hi, low.over)
           IN  [limbs |-> low.limbs \o high.limbs, over |-> high.over]

BigAdd(a, b) ==
    IF a = <<>> THEN b
    ELSE IF b = <<>> THEN a
    ELSE LET r == AddC(a, b, 1, Max2(Len(a), Len(b)), 0) IN r.limbs \o Big(r.over)

\* b * Base^n
ShiftLimbs(b, n) == IF b = <<>> THEN b ELSE [i \in 1..n |-> 0] \o b

\* a * b, the limbs of a taken by halves
RECURSIVE BigMul(_, _)
BigMul(a, b) ==
    IF a = <<>> \/ b = <<>> THEN <<>>
    ELSE IF Len(a) = 1 THEN MulSmall(b, a[1])
    ELSE LET h == Len(a) \div 2
             low == BigMul(Trim(SubSeq(a, 1, h)), b)
             high == BigMul(SubSeq(a, h + 1, Len(a)), b)
         IN  IF high = <<>> THEN low ELSE BigAdd(low, [i \in 1..h |-> 0] \o high)

\* -1, 0 or 1 as a < b, a = b or a > b
BigCmp(a, b) ==
    IF Len(a) < Len(b) THEN -1
    ELSE IF Len(a) > Len(b) THEN 1
    ELSE LET d == {i \in 1..Len(a) : a[i] # b[i]}
         IN  IF d = {} THEN 0
             ELSE IF a[MaxOf(d)] < b[MaxOf(d)] THEN -1 ELSE 1

\* the limbs hi down to lo of b divided by k, r the remainder carried in
RECURSIVE DivC(_, _, _, _, _)
DivC(b, k, lo, hi, r) ==
    IF lo = hi
      THEN LET cur == r * Base + b[lo]
           IN  [q |-> <<cur \div k>>, r |-> cur % k]
      ELSE LET mid == (lo + hi) \div 2
               high == DivC(b, k, mid + 1, hi, r)
               low == DivC(b, k, lo, mid, high.r)
           IN  [r |-> low.r, q |-> low.q \o high.q]

\* quotient and remainder of b by k, for 1 <= k < Base
DivSmall(b, k) ==
    IF b = <<>> THEN [q |-> b, r |-> 0]
    ELSE LET d == DivC(b, k, 1, Len(b), 0) IN [q |-> Trim(d.q), r |-> d.r]

\* p^n for a small p, by squaring
RECURSIVE BigPow(_, _)
BigPow(p, n) ==
    IF n = 0 THEN <<1>>
    ELSE LET h == BigPow(p, n \div 2)
             sq == BigMul(h, h)
         IN  IF n % 2 = 0 THEN sq ELSE MulSmall(sq, p)

IsOdd(b) == b # <<>> /\ b[1] % 2 = 1

\* the number of bits of b: 2^(n-1) <= b < 2^n
BitLen(b) ==
    IF b = <<>> THEN 0 ELSE LimbBits * (Len(b) - 1) + IntBitLen(b[Len(b)])

\* In a base that is a power of two a shift by t < LimbBits bits moves
\* bits between neighbouring limbs only.
BitsR(b, t) ==
    Trim([i \in 1..Len(b) |->
            (b[i] \div 2^t) + (Limb(b, i + 1) % 2^t) * 2^(LimbBits - t)])

BitsL(b, t) ==
    Trim([i \in 1..(Len(b) + 1) |->
            ((Limb(b, i) * 2^t) % Base) + ((Limb(b, i - 1) * 2^t) \div Base)])

\* b without its n lowest limbs
DropLimbs(b, n) == IF n >= Len(b) THEN <<>> ELSE SubSeq(b, n + 1, Len(b))

\* b shifted right by s >= 1 bits: the quotient q, the last bit shifted out
\* (g, the guard bit) and whether any bit below it was set (st, sticky).
ShiftR(b, s, st) ==
    LET n == (s - 1) \div LimbBits
        t == (s - 1) % LimbBits
        rest == DropLimbs(b, n)
        d == BitsR(rest, t)
        below == (\E i \in 1..Min2(n, Len(b)) : b[i] # 0) \/ Limb(rest, 1) % 2^t # 0
    IN  [q |-> BitsR(d, 1), g |-> IsOdd(d), st |-> st \/ below]

\* b shifted left by t bits
ShiftL(b, t) ==
    IF t <= 0 THEN b
    ELSE ShiftLimbs(BitsL(b, t % LimbBits), t \div LimbBits)

(***************************************************************************)
(* Python floats (IEEE-754 binary64), non-negative and at most 1.0, which  *)
(* is all the decoder ever forms.  A float is [m, e] standing for m * 2^e: *)
(* zero is m = <<>>, e = 0; a normal number has 2^52 <= m < 2^53; a        *)
(* subnormal one has e = EMin and m < 2^52.                                *)
(***************************************************************************)
\* the significand of a binary64 has 53 bits, and its least exponent is -1074
MantBits == 53
EMin == 0 - 1074

FZero == [m |-> <<>>, e |-> 0]

\* The float nearest to (P + f) * 2^e, ties to even, where P > 0 and f is a
\* fraction in [0, 1) that is not 0 exactly when `frac` holds.
FRound(P, e, frac) ==
    LET s == Max2(BitLen(P) - MantBits, EMin - e)
    IN  IF s <= 0
          THEN LET t == Min2(MantBits - BitLen(P), e - EMin)
               IN  [m |-> ShiftL(P, t), e |-> e - t]
          ELSE LET r  == ShiftR(P, s, frac)
                   up == r.g /\ (r.st \/ IsOdd(r.q))
                   m  == IF up THEN BigAdd(r.q, <<1>>) ELSE r.q
               IN  IF m = <<>> THEN FZero
                   ELSE IF BitLen(m) > MantBits
                     THEN [m |-> BitsR(m, 1), e |-> e + s + 1]
                     ELSE [m |-> m, e |-> e + s]

\* a * b on floats
FMul(a, b) ==
    IF a.m = <<>> \/ b.m = <<>> THEN FZero
    ELSE FRound(BigMul(a.m, b.m), a.e + b.e, FALSE)

\* a > b on floats
FGt(a, b) ==
    IF a.m = <<>> THEN FALSE
    ELSE IF b.m = <<>> THEN TRUE
    ELSE IF a.e # b.e THEN a.e > b.e
    ELSE BigCmp(a.m, b.m) = 1

\* Probabilities are written in thousandths.  The float a decimal literal
\* of n thousandths denotes (0.9 is 900) is read from the quotient of
\* n * 2^LitBits by 1000: LitBits places are enough for the quotient of the
\* least n to hold a guard bit below the significand.
Thousand == 10 * 100
LitBits == MantBits + 1 + IntBitLen(Thousand)
FromThousandths(n) ==
    IF n = 0 THEN FZero
    ELSE LET d == DivSmall(ShiftL(Big(n), LitBits), Thousand)
         IN  FRound(d.q, 0 - LitBits, d.r # 0)

(***************************************************************************)
(* The hard-coded model.  Probabilities in thousandths.                    *)
(***************************************************************************)
hmm_states == <<"E", "5", "I">>
dna_bases == <<"A", "C", "G", "T">>

States == {hmm_states[i] : i \in 1..Len(hmm_states)}
Bases == {dna_bases[i] : i \in 1..Len(dna_bases)}

start_probs == ("E" :> 1000) @@ ("5" :> 0) @@ ("I" :> 0)

trans_probs ==
    ("Start" :> (("E" :> 1000) @@ ("5" :> 0)   @@ ("I" :> 0)    @@ ("End" :> 0))) @@
    ("E"     :> (("E" :> 900)  @@ ("5" :> 100) @@ ("I" :> 0)    @@ ("End" :> 0))) @@
    ("5"     :> (("E" :> 0)    @@ ("5" :> 0)   @@ ("I" :> 1000) @@ ("End" :> 0))) @@
    ("I"     :> (("E" :> 0)    @@ ("5" :> 0)   @@ ("I" :> 900)  @@ ("End" :> 100)))

emit_probs ==
    ("E" :> (("A" :> 250) @@ ("C" :> 250) @@ ("G" :> 250) @@ ("T" :> 250))) @@
    ("5" :> (("A" :> 50)  @@ ("C" :> 0)   @@ ("G" :> 950) @@ ("T" :> 0))) @@
    ("I" :> (("A" :> 400) @@ ("C" :> 100) @@ ("G" :> 100) @@ ("T" :> 400)))

\* The probabilities of the tables
ProbValues ==
    {start_probs[s] : s \in DOMAIN start_probs}
    \cup UNION {{trans_probs[a][b] : b \in DOMAIN trans_probs[a]} : a \in DOMAIN trans_probs}
    \cup UNION {{emit_probs[a][b] : b \in DOMAIN emit_probs[a]} : a \in DOMAIN emit_probs}

\* and the floats the interpreter reads their literals as
FloatOf == [n \in ProbValues |-> FromThousandths(n)]

(***************************************************************************)
(* The inputs.                                                             *)
(***************************************************************************)
MaxSeqLen == 4
LongLen == 500

SeqsUpTo(S, n) == UNION {[1..k -> S] : k \in 0..n}

\* the sequence of the notebook, CTTCATGTGAAAGCAGACGTAAGTCA
ReferenceSeq ==
    <<"C","T","T","C","A","T","G","T","G","A","A","A","G",
      "C","A","G","A","C","G","T","A","A","G","T","C","A">>

\* a long sequence: LongLen times C
LongSeq == [i \in 1..LongLen |-> "C"]

DecodeInputs == SeqsUpTo(Bases, MaxSeqLen) \cup {ReferenceSeq, LongSeq}

VARIABLES
    pc,           \* where the running call or cell is
    err,          \* the exception that ended it, "none" while there is none
    ret,          \* <<v>> once the call has returned v, <<>> before
    dna_seq,      \* find_best_path: the argument
    dp_table,     \* find_best_path: row pos+1 is dp_table[pos]
    backtrack,    \* find_best_path: row pos+1 is backtrack[pos]
    pos,          \* find_best_path: the loop variable pos
    final_state,  \* find_best_path
    best_path,    \* find_best_path
    states,       \* calc_path_probability: the argument states
    sequence,     \* calc_path_probability: the argument sequence
    idx,          \* calc_path_probability: the next pair of zip(states, sequence)
    total_log_prob, \* calc_path_probability
    last_state,   \* calc_path_probability
    lookups,      \* calc_path_probability: table entries read so far
    fasta_content, \* reformatter: the lines read from the input file
    line_no,      \* reformatter: the next line of the loop
    current_seq,  \* reformatter
    fasta_out     \* reformatter: the lines written to the output file

decodeVars == <<dna_seq, dp_table, backtrack, pos, final_state, best_path>>
scoreVars == <<states, sequence, idx, total_log_prob, last_state, lookups>>
fastaVars == <<fasta_content, line_no, current_seq, fasta_out>>
vars == <<pc, err, ret, decodeVars, scoreVars, fastaVars>>

None == "None"
EmptyDict == <<>>

\* the variables of a call or cell that is not the one running
DecodeIdle ==
    /\ dna_seq = <<>>
    /\ dp_table = <<>>
    /\ backtrack = <<>>
    /\ pos = 0
    /\ final_state = None
    /\ best_path = <<>>

ScoreIdle ==
    /\ states = <<>>
    /\ sequence = <<>>
    /\ idx = 0
    /\ total_log_prob = <<>>
    /\ last_state = None
    /\ lookups = 0

FastaIdle ==
    /\ fasta_content = <<>>
    /\ line_no = 0
    /\ current_seq = <<>>
    /\ fasta_out = <<>>

(***************************************************************************)
(* find_best_path                                                          *)
(***************************************************************************)
seq_len == Len(dna_seq)

\* line 177 without the transition probability
NewProbNoTransition(prev_row, previous, current, base) ==
    FMul(prev_row[previous], FloatOf[emit_probs[current][base]])

\* new_prob of line 177; the product is formed left to right
NewProb(prev_row, previous, current, base) ==
    FMul(FMul(prev_row[previous], FloatOf[trans_probs[previous][current]]),
         FloatOf[emit_probs[current][base]])

\* line 178 with the comparison turned round
ImprovesReversed(new_prob, best_prob) == FGt(best_prob, new_prob)

\* the test of line 178
Improves(new_prob, best_prob) == FGt(new_prob, best_prob)

\* the loop of lines 175-180 from the i-th state on; best is [prob, prev]
RECURSIVE PreviousLoop(_, _, _, _, _)
PreviousLoop(prev_row, current, base, i, best) ==
    IF i > Len(hmm_states) THEN best
    ELSE LET previous == hmm_states[i]
             new_prob == NewProb(prev_row, previous, current, base)
         IN  PreviousLoop(prev_row, current, base, i + 1,
                 IF Improves(new_prob, best.prob)
                   THEN [prob |-> new_prob, prev |-> previous]
                   ELSE best)

\* lines 173-180 for one current state
BestFor(prev_row, current, base) ==
    PreviousLoop(prev_row, current, base, 1, [prob |-> FZero, prev |-> None])

\* max(d, key = d.get) over a dict with the keys of hmm_states, in their order:
\* the first key whose value no later key exceeds
RECURSIVE MaxKeyLoop(_, _, _)
MaxKeyLoop(d, i, best) ==
    IF i > Len(hmm_states) THEN best
    ELSE MaxKeyLoop(d, i + 1, IF FGt(d[hmm_states[i]], d[best]) THEN hmm_states[i] ELSE best)

MaxKey(d) == MaxKeyLoop(d, 2, hmm_states[1])

\* an empty sequence answered with an empty path
InitializeEmptyReturns ==
    /\ pc = "find_best_path"
    /\ seq_len = 0
    /\ pc' = "done"
    /\ ret' = <<best_path>>
    /\ dp_table' = <<>>
    /\ backtrack' = <<>>
    /\ UNCHANGED <<err, dna_seq, pos, final_state, best_path>>
    /\ UNCHANGED <<scoreVars, fastaVars>>

\* lines 161-168 on an empty sequence: dna_seq[0] raises IndexError
InitializeEmpty ==
    /\ pc = "find_best_path"
    /\ seq_len = 0
    /\ pc' = "raised"
    /\ err' = "IndexError"
    /\ dp_table' = <<>>
    /\ backtrack' = <<>>
    /\ UNCHANGED <<ret, dna_seq, pos, final_state, best_path>>
    /\ UNCHANGED <<scoreVars, fastaVars>>

\* lines 161-168
Initialize ==
    /\ pc = "find_best_path"
    /\ seq_len > 0
    /\ dp_table' = [i \in 1..seq_len |->
                      IF i = 1
                        THEN [state \in States |->
                                FMul(FloatOf[start_probs[state]],
                                     FloatOf[emit_probs[state][dna_seq[1]]])]
                        ELSE EmptyDict]
    /\ backtrack' = [i \in 1..seq_len |-> EmptyDict]
    /\ pos' = 1
    /\ pc' = "recursion"
    /\ UNCHANGED <<err, ret, dna_seq, final_state, best_path>>
    /\ UNCHANGED <<scoreVars, fastaVars>>

\* lines 171-182: one round of the loop over pos
Recursion ==
    /\ pc = "recursion"
    /\ pos < seq_len
    /\ LET best == [current \in States |->
                      BestFor(dp_table[pos], current, dna_seq[pos + 1])]
       IN  /\ dp_table' = [dp_table EXCEPT ![pos + 1] =
                              [current \in States |-> best[current].prob]]
           /\ backtrack' = [backtrack EXCEPT ![pos + 1] =
                              [current \in States |-> best[current].prev]]
    /\ pos' = pos + 1
    /\ UNCHANGED <<pc, err, ret, dna_seq, final_state, best_path>>
    /\ UNCHANGED <<scoreVars, fastaVars>>

\* lines 185-186
Termination ==
    /\ pc = "recursion"
    /\ pos = seq_len
    /\ final_state' = MaxKey(dp_table[seq_len])
    /\ best_path' = <<final_state'>>
    /\ pos' = seq_len - 1
    /\ pc' = "traceback"
    /\ UNCHANGED <<err, ret, dna_seq, dp_table, backtrack>>
    /\ UNCHANGED <<scoreVars, fastaVars>>

\* lines 187-189: one round of the loop; backtrack[pos] has no key None
Traceback ==
    /\ pc = "traceback"
    /\ pos >= 1
    /\ IF final_state \in DOMAIN backtrack[pos + 1]
         THEN /\ final_state' = backtrack[pos + 1][final_state]
              /\ best_path' = <<final_state'>> \o best_path
              /\ pos' = pos - 1
              /\ UNCHANGED <<pc, err>>
         ELSE /\ pc' = "raised"
              /\ err' = "KeyError"
              /\ UNCHANGED <<final_state, best_path, pos>>
    /\ UNCHANGED <<ret, dna_seq, dp_table, backtrack>>
    /\ UNCHANGED <<scoreVars, fastaVars>>

\* line 191
ReturnPath ==
    /\ pc = "traceback"
    /\ pos = 0
    /\ pc' = "done"
    /\ ret' = <<best_path>>
    /\ UNCHANGED <<err, decodeVars>>
    /\ UNCHANGED <<scoreVars, fastaVars>>

InitDecode ==
    /\ pc = "find_best_path"
    /\ err = "none"
    /\ ret = <<>>
    /\ dna_seq \in DecodeInputs
    /\ dp_table = <<>>
    /\ backtrack = <<>>
    /\ pos = 0
    /\ final_state = None
    /\ best_path = <<>>
    /\ ScoreIdle
    /\ FastaIdle

NextDecode ==
    \/ InitializeEmpty
    \/ Initialize
    \/ Recursion
    \/ Termination
    \/ Traceback
    \/ ReturnPath

SpecDecode == InitDecode /\ [][NextDecode]_vars

(***************************************************************************)
(* Logarithms.  math.log of a probability n/1000 whose primes are 2, 3, 5  *)
(* and 19 is x[1] ln 2 + x[2] ln 3 + x[3] ln 5 + x[4] ln 19; the record    *)
(* [inf, x] is that number, or negative infinity when inf holds.           *)
(***************************************************************************)
Primes == <<2, 3, 5, 19>>
PrimeIdx == 1..Len(Primes)

RECURSIVE ExpOf(_, _)
ExpOf(n, p) == IF n % p # 0 THEN 0 ELSE 1 + ExpOf(n \div p, p)

NegInf == [inf |-> TRUE, x |-> [i \in PrimeIdx |-> 0]]
LogZero == [inf |-> FALSE, x |-> [i \in PrimeIdx |-> 0]]

\* lines 85-89 with the logarithm of 0 taken to be 0
safe_logZeroFinite(num) ==
    IF num = 0 THEN LogZero
    ELSE [inf |-> FALSE,
          x |-> [i \in PrimeIdx |-> ExpOf(num, Primes[i]) - ExpOf(Thousand, Primes[i])]]

\* lines 85-89; num in thousandths
safe_log(num) ==
    IF num = 0 THEN NegInf
    ELSE [inf |-> FALSE,
          x |-> [i \in PrimeIdx |-> ExpOf(num, Primes[i]) - ExpOf(Thousand, Primes[i])]]

\* a + b on floats that are logarithms or negative infinity
LogAdd(a, b) ==
    IF a.inf \/ b.inf THEN NegInf
    ELSE [inf |-> FALSE, x |-> [i \in PrimeIdx |-> a.x[i] + b.x[i]]]

(***************************************************************************)
(* calc_path_probability                                                   *)
(***************************************************************************)
MaxPathLen == 3

\* the path of the notebook, EEEEEEEEEEEEEEEEEE5IIIIIII
ReferencePath == [i \in 1..26 |-> IF i <= 18 THEN "E" ELSE IF i = 19 THEN "5" ELSE "I"]

\* a state and a base the model does not have
ScoreStates == States \cup {"X"}
ScoreBases == Bases \cup {"N"}

ScoreInputs ==
    (SeqsUpTo(ScoreStates, MaxPathLen) \X SeqsUpTo(ScoreBases, MaxPathLen))
    \cup {<<ReferencePath, ReferenceSeq>>}

\* line 92 testing only for a path longer than the sequence
LengthsDifferOneWay(st, sq) == Len(st) > Len(sq)

\* the test of line 92
LengthsDiffer(st, sq) == Len(st) # Len(sq)

\* zip(states, sequence) has as many pairs as the shorter of the two
ZipLen(st, sq) == Min2(Len(st), Len(sq))

\* trans_prob + emit_prob of lines 100-102
StepLog(last, curr_state, base) ==
    LogAdd(safe_log(trans_probs[last][curr_state]), safe_log(emit_probs[curr_state][base]))

\* lines 106-107 without the test of the last state
AddEndAlways(total, last) == LogAdd(total, safe_log(trans_probs[last]["End"]))

\* lines 106-107
AddEnd(total, last) ==
    IF last = "I" THEN LogAdd(total, safe_log(trans_probs[last]["End"])) ELSE total

\* lines 92-93
RaiseLengthMismatch ==
    /\ pc = "calc_path_probability"
    /\ LengthsDiffer(states, sequence)
    /\ pc' = "raised"
    /\ err' = "ValueError"
    /\ UNCHANGED <<ret, scoreVars, decodeVars, fastaVars>>

\* lines 92-96
StartScore ==
    /\ pc = "calc_path_probability"
    /\ ~LengthsDiffer(states, sequence)
    /\ total_log_prob' = LogZero
    /\ last_state' = "Start"
    /\ idx' = 1
    /\ pc' = "score_loop"
    /\ UNCHANGED <<err, ret, states, sequence, lookups, decodeVars, fastaVars>>

\* lines 99-103: one round of the loop; a key a table lacks raises KeyError
ScoreStep ==
    /\ pc = "score_loop"
    /\ idx <= ZipLen(states, sequence)
    /\ LET curr_state == states[idx]
           base == sequence[idx]
       IN  IF curr_state \notin DOMAIN trans_probs[last_state]
             THEN /\ pc' = "raised"
                  /\ err' = "KeyError"
                  /\ UNCHANGED <<total_log_prob, last_state, idx, lookups>>
             ELSE IF curr_state \notin DOMAIN emit_probs
                     \/ base \notin DOMAIN emit_probs[curr_state]
               THEN /\ pc' = "raised"
                    /\ err' = "KeyError"
                    /\ lookups' = lookups + 1
                    /\ UNCHANGED <<total_log_prob, last_state, idx>>
               ELSE /\ total_log_prob' =
                          LogAdd(total_log_prob, StepLog(last_state, curr_state, base))
                    /\ last_state' = curr_state
                    /\ idx' = idx + 1
                    /\ lookups' = lookups + 2
                    /\ UNCHANGED <<pc, err>>
    /\ UNCHANGED <<ret, states, sequence, decodeVars, fastaVars>>

\* lines 105-109
ReturnScore ==
    /\ pc = "score_loop"
    /\ idx > ZipLen(states, sequence)
    /\ total_log_prob' = AddEnd(total_log_prob, last_state)
    /\ lookups' = IF last_state = "I" THEN lookups + 1 ELSE lookups
    /\ ret' = <<total_log_prob'>>
    /\ pc' = "done"
    /\ UNCHANGED <<err, states, sequence, idx, last_state, decodeVars, fastaVars>>

\* calc_path_probability(st, sq) for a path and a sequence of the model's
\* states and bases and of one length: the value it returns
RECURSIVE ScoreLoop(_, _, _, _, _)
ScoreLoop(st, sq, i, last, total) ==
    IF i > ZipLen(st, sq) THEN AddEnd(total, last)
    ELSE ScoreLoop(st, sq, i + 1, st[i], LogAdd(total, StepLog(last, st[i], sq[i])))

calc_path_probability(st, sq) == ScoreLoop(st, sq, 1, "Start", LogZero)

InitScore ==
    /\ pc = "calc_path_probability"
    /\ err = "none"
    /\ ret = <<>>
    /\ \E input \in ScoreInputs : states = input[1] /\ sequence = input[2]
    /\ idx = 0
    /\ total_log_prob = <<>>
    /\ last_state = None
    /\ lookups = 0
    /\ DecodeIdle
    /\ FastaIdle

NextScore ==
    \/ RaiseLengthMismatch
    \/ StartScore
    \/ ScoreStep
    \/ ReturnScore

SpecScore == InitScore /\ [][NextScore]_vars

(***************************************************************************)
(* The FASTA reformatter cell.  A line is a sequence of characters; the    *)
(* line terminator, which strip() removes with the other white space, is   *)
(* left out of the lines read, and each write of a text and "\n" is one    *)
(* line of the output.                                                     *)
(***************************************************************************)
MaxLineLen == 2
MaxLines == 3

Chars == {">", "A", "C", " "}
White == {" "}

FastaInputs == SeqsUpTo(SeqsUpTo(Chars, MaxLineLen), MaxLines)

RECURSIVE LStrip(_)
LStrip(l) == IF l # <<>> /\ l[1] \in White THEN LStrip(Tail(l)) ELSE l

RECURSIVE RStrip(_)
RStrip(l) ==
    IF l # <<>> /\ l[Len(l)] \in White THEN RStrip(SubSeq(l, 1, Len(l) - 1)) ELSE l

\* str.strip()
strip(l) == RStrip(LStrip(l))

\* str.startswith(">")
IsHeader(l) == l # <<>> /\ l[1] = ">"

\* lines 79-89: one round of the loop
ProcessLine ==
    /\ pc = "fasta_loop"
    /\ line_no <= Len(fasta_content)
    /\ LET current_line == strip(fasta_content[line_no])
       IN  IF IsHeader(current_line)
             THEN /\ fasta_out' =
                        (IF current_seq # <<>>
                           THEN Append(fasta_out, current_seq)
                           ELSE fasta_out) \o <<current_line>>
                  /\ current_seq' = <<>>
             ELSE /\ current_seq' = current_seq \o current_line
                  /\ UNCHANGED fasta_out
    /\ line_no' = line_no + 1
    /\ UNCHANGED <<pc, err, ret, fasta_content, decodeVars, scoreVars>>

\* lines 90-92
FinishFile ==
    /\ pc = "fasta_loop"
    /\ line_no > Len(fasta_content)
    /\ fasta_out' = IF current_seq # <<>> THEN Append(fasta_out, current_seq) ELSE fasta_out
    /\ pc' = "done"
    /\ UNCHANGED <<err, ret, fasta_content, line_no, current_seq, decodeVars, scoreVars>>

\* lines 74-78
InitFasta ==
    /\ pc = "fasta_loop"
    /\ err = "none"
    /\ ret = <<>>
    /\ fasta_content \in FastaInputs
    /\ line_no = 1
    /\ current_seq = <<>>
    /\ fasta_out = <<>>
    /\ DecodeIdle
    /\ ScoreIdle

NextFasta ==
    \/ ProcessLine
    \/ FinishFile

SpecFasta == InitFasta /\ [][NextFasta]_vars

(***************************************************************************)
(* What the claims speak of: exact probabilities, the order of logarithms, *)
(* the paths of one length, the records of a FASTA file.                   *)
(***************************************************************************)
Paths(n) == [1..n -> States]

IsStatePath(p, n) == Len(p) = n /\ \A i \in 1..Len(p) : p[i] \in States

\* start[p[0]] * emission[p[0]][sq[0]] * the product over i = 1..N-1 of
\* transition[p[i-1]][p[i]] * emission[p[i]][sq[i]], in 1000^(2N)-ths
RECURSIVE JointFrom(_, _, _, _)
JointFrom(p, sq, i, acc) ==
    IF i > Len(p) \/ acc = <<>> THEN acc
    ELSE JointFrom(p, sq, i + 1,
             MulSmall(MulSmall(acc, trans_probs[p[i - 1]][p[i]]), emit_probs[p[i]][sq[i]]))

Joint(p, sq) == JointFrom(p, sq, 2, MulSmall(Big(start_probs[p[1]]), emit_probs[p[1]][sq[1]]))

\* the product of the primes to the positive exponents of d
RECURSIVE PowProd(_, _)
PowProd(d, i) ==
    IF i > Len(Primes) THEN <<1>>
    ELSE BigMul(BigPow(Primes[i], Max2(d[i], 0)), PowProd(d, i + 1))

\* exp(v) is NumOf(v) / DenOf(v)
NumOf(v) == PowProd(v.x, 1)
DenOf(v) == PowProd([i \in PrimeIdx |-> 0 - v.x[i]], 1)

\* a <= b on logarithms
LogLeq(a, b) ==
    \/ a.inf
    \/ /\ ~b.inf
       /\ BigCmp(PowProd([i \in PrimeIdx |-> a.x[i] - b.x[i]], 1),
                 PowProd([i \in PrimeIdx |-> b.x[i] - a.x[i]], 1)) <= 0

\* the state before position i of a path
PrevOf(st, i) == IF i = 1 THEN "Start" ELSE st[i - 1]

EndsInI(st) == st # <<>> /\ st[Len(st)] = "I"

\* the product over the positions of transition[prev][path[i]] *
\* emission[path[i]][sequence[i]], times transition['I']['End'] for a path
\* that ends in I, in thousandths to the number of factors
RECURSIVE ProductFrom(_, _, _, _)
ProductFrom(st, sq, i, acc) ==
    IF i > Len(st) \/ acc = <<>> THEN acc
    ELSE ProductFrom(st, sq, i + 1,
             MulSmall(MulSmall(acc, trans_probs[PrevOf(st, i)][st[i]]), emit_probs[st[i]][sq[i]]))

ExactProduct(st, sq) ==
    LET body == ProductFrom(st, sq, 1, <<1>>)
    IN  IF EndsInI(st) THEN MulSmall(body, trans_probs["I"]["End"]) ELSE body

NumFactors(st) == 2 * Len(st) + (IF EndsInI(st) THEN 1 ELSE 0)

\* some probability looked up at the first n positions is 0
ZeroStep(st, sq, n) ==
    \E i \in 1..n : \/ trans_probs[PrevOf(st, i)][st[i]] = 0
                    \/ emit_probs[st[i]][sq[i]] = 0

\* a number from its decimal digits in groups of four, the first group first
RECURSIVE FromGroups(_)
FromGroups(g) ==
    IF g = <<>> THEN <<>>
    ELSE BigAdd(MulSmall(FromGroups(SubSeq(g, 1, Len(g) - 1)), 100 * 100), Big(g[Len(g)]))

\* exp(-41.225) and exp(-41.215) in 10^-30: the least and the greatest
\* multiple inside the interval of the numbers that round to -41.22
PrintedScale == BigPow(10, 30)
PrintedLow == FromGroups(<<1, 2479, 8677, 6195>>)
PrintedHigh == FromGroups(<<1, 2605, 2925, 1813>>)

AllE(n) == [i \in 1..n |-> "E"]

\* the candidates of row i (position i - 1) for state s, in the order of hmm_states
Candidates(i, s) ==
    [k \in 1..Len(hmm_states) |-> NewProb(dp_table[i - 1], hmm_states[k], s, dna_seq[i])]

\* the first index of f that holds its greatest value
EarliestMax(f) ==
    CHOOSE k \in DOMAIN f : /\ \A j \in DOMAIN f : ~FGt(f[j], f[k])
                            /\ \A j \in 1..(k - 1) : FGt(f[k], f[j])

\* the FASTA records of the stripped lines L from line i on: each header and
\* the concatenation of the lines up to the next header
RECURSIVE ConcatLines(_, _, _)
ConcatLines(L, i, j) == IF i > j THEN <<>> ELSE L[i] \o ConcatLines(L, i + 1, j)

NextHeader(L, i) ==
    IF \E j \in (i + 1)..Len(L) : IsHeader(L[j])
      THEN CHOOSE j \in (i + 1)..Len(L) :
               IsHeader(L[j]) /\ \A k \in (i + 1)..(j - 1) : ~IsHeader(L[k])
      ELSE Len(L) + 1

RECURSIVE RecordsFrom(_, _)
RecordsFrom(L, i) ==
    IF i > Len(L) THEN <<>>
    ELSE <<L[i], ConcatLines(L, i + 1, NextHeader(L, i) - 1)>>
             \o RecordsFrom(L, NextHeader(L, i))

StrippedLines == [i \in 1..Len(fasta_content) |-> strip(fasta_content[i])]

\* the text before the first header, which belongs to no record
LeadingText == ConcatLines(StrippedLines, 1, NextHeader(StrippedLines, 0) - 1)

(***************************************************************************)
(* The claims.                                                             *)
(***************************************************************************)

\* C1: for a sequence of length N >= 1 find_best_path returns a path of N
\* states whose joint probability no path of length N exceeds (the paths
\* are compared one by one for N up to MaxSeqLen).
C1_MaximalJoint ==
    seq_len >= 1 /\ pc \in {"done", "raised"} =>
        /\ pc = "done"
        /\ IsStatePath(best_path, seq_len)
        /\ seq_len <= MaxSeqLen =>
               \A p \in Paths(seq_len) :
                   BigCmp(Joint(p, dna_seq), Joint(best_path, dna_seq)) <= 0

\* C2: the decoded path has the highest calc_path_probability of all the
\* paths of its length, the End term of the paths that end in I included.
C2_DecodedScoreHighest ==
    pc = "done" /\ seq_len <= MaxSeqLen =>
        \A p \in Paths(seq_len) :
            LogLeq(calc_path_probability(p, dna_seq),
                   calc_path_probability(best_path, dna_seq))

\* C3: for a sequence of length N >= 1 find_best_path returns a list of N
\* states of {E,5,I}; the traceback never follows nor returns a None.
C3_PathOfStates ==
    seq_len >= 1 =>
        /\ pc # "raised"
        /\ \A i \in 1..Len(best_path) : best_path[i] \in States
        /\ pc = "traceback" => final_state \in States
        /\ pc = "done" => Len(best_path) = seq_len /\ ret = <<best_path>>

\* C4: calc_path_probability returns the logarithm of the product of the
\* transition and emission probabilities along the path, times
\* transition['I']['End'] exactly when the path ends in I; for the path and
\* the sequence of the notebook the value rounds to -41.22.
C4_LogOfProduct ==
    pc = "done" /\ Len(states) = Len(sequence) =>
        LET v == ret[1]
            prod == ExactProduct(states, sequence)
        IN  /\ v.inf <=> prod = <<>>
            /\ ~v.inf =>
                 BigMul(NumOf(v), BigPow(Thousand, NumFactors(states)))
                     = BigMul(prod, DenOf(v))
            /\ states = ReferencePath /\ sequence = ReferenceSeq =>
                 /\ ~v.inf
                 /\ BigCmp(BigMul(PrintedLow, DenOf(v)), BigMul(NumOf(v), PrintedScale)) = -1
                 /\ BigCmp(BigMul(NumOf(v), PrintedScale), BigMul(PrintedHigh, DenOf(v))) = -1

C4_Witness ==
    /\ pc = "done"
    /\ states = ReferencePath
    /\ sequence = ReferenceSeq
    /\ ~ret[1].inf

\* C5: the accumulator of calc_path_probability is negative infinity exactly
\* from the first looked-up probability that is 0 on (the End transition of
\* a path ending in I included), and a value that is not is finite and <= 0.
C5_NegInfAbsorbing ==
    /\ pc = "score_loop" =>
           (total_log_prob.inf <=> ZeroStep(states, sequence, idx - 1))
    /\ pc = "done" /\ Len(states) = Len(sequence) =>
           /\ ret[1].inf <=>
                  \/ ZeroStep(states, sequence, Len(states))
                  \/ EndsInI(states) /\ trans_probs["I"]["End"] = 0
           /\ ~ret[1].inf => LogLeq(ret[1], LogZero)

\* a zero-probability step at the first position, later steps after it
C5_Witness ==
    /\ pc = "done"
    /\ Len(states) >= 2
    /\ ZeroStep(states, sequence, 1)
    /\ ret[1].inf

\* C6: on CTTCATGTGAAAGCAGACGTAAGTCA the DP value of E at the last position
\* is the greatest, every backpointer followed is E, and the path returned
\* is 26 times E.
C6_ReferenceAllE ==
    dna_seq = ReferenceSeq /\ pc \in {"traceback", "done"} =>
        /\ \A s \in States : ~FGt(dp_table[seq_len][s], dp_table[seq_len]["E"])
        /\ best_path = AllE(Len(best_path))
        /\ pc = "done" => ret = <<AllE(Len(ReferenceSeq))>>

C6_Witness ==
    /\ dna_seq = ReferenceSeq
    /\ pc = "done"
    /\ Len(best_path) = Len(ReferenceSeq)

\* C7: with a path and a sequence of different lengths calc_path_probability
\* raises the length error before it reads any table entry and returns
\* nothing, also when a state or a base is none of the model's.
C7_LengthMismatch ==
    Len(states) # Len(sequence) /\ pc # "calc_path_probability" =>
        /\ pc = "raised"
        /\ err = "ValueError"
        /\ lookups = 0
        /\ ret = <<>>

C7_Witness ==
    /\ Len(states) # Len(sequence)
    /\ pc = "raised"
    /\ \/ \E i \in 1..Len(states) : states[i] \notin States
       \/ \E i \in 1..Len(sequence) : sequence[i] \notin Bases

\* C8: on a sequence of length 0 find_best_path ends with an error (Python's
\* IndexError, from dna_seq[0]) and returns no path.
C8_EmptyRaises ==
    pc \in {"recursion", "traceback", "done", "raised"} /\ seq_len = 0 =>
        /\ pc = "raised"
        /\ err = "IndexError"
        /\ ret = <<>>

C8_Witness ==
    /\ seq_len = 0
    /\ pc = "raised"
    /\ err = "IndexError"

\* C9: the output holds every header, in the order of the input, each
\* followed at once by one line with the concatenation of the sequence lines
\* up to the next header (lines taken without the white space around them;
\* text before the first header may come first).
C9_HeaderThenOneLine ==
    pc = "done" /\ fasta_content # <<>> =>
        LET L == StrippedLines
            records == RecordsFrom(L, NextHeader(L, 0))
        IN  \/ fasta_out = records
            \/ LeadingText # <<>> /\ fasta_out = <<LeadingText>> \o records

====
